---- MODULE Spec2Model ----
(***************************************************************************)
(* A model of flopy's scalar data cells (flopy/mf6/data/mfdatascalar.py:   *)
(* MFScalar and MFScalarTransient) and of the ModflowPcgn constructor      *)
(* (flopy/modflow/mfpcgn.py).                                              *)
(*                                                                         *)
(* Python values are tagged records.  A raw scalar or a token of a line is *)
(* [k, v]; a list, tuple or ndarray is [k, e] with e the elements.  A      *)
(* stored value is [t, v]; NoData is Python's None inside a storage        *)
(* object, NoStorage is "the storage object itself is None".               *)
(***************************************************************************)
EXTENDS Integers, Sequences, FiniteSets, TLC

VARIABLES structure, data_storage, current_key, call, result,
          extension_default, package_args

vars == <<structure, data_storage, current_key, call, result,
          extension_default, package_args>>

\* ------------------------------------------------------------------ bounds
MaxVal == 2        \* add_one is not taken on a number >= MaxVal
MaxItems == 2      \* sub-items of a record schema
MaxTokens == 3     \* tokens on a loaded line
MaxDepth == 2      \* nesting depth of the wrappers given to set_data
MaxKey == 2        \* SpecKeys: transient keys are 0..MaxKey
MaxCellKey == 1    \* SpecTransient: transient keys are 0..MaxCellKey
MaxBuilds == 2     \* ModflowPcgn constructions in one run
MaxUnit == 1       \* unit_pc, unit_ts, ipunit are 0..MaxUnit

\* ------------------------------------------------------------ Python values
NoData == [t |-> "none", v |-> 0]
NoStorage == [t |-> "nostorage", v |-> 0]
IntVal(n) == [t |-> "int", v |-> n]
DoubleVal(n) == [t |-> "double", v |-> n]
StrVal(n) == [t |-> "str", v |-> n]
BoolTrue == [t |-> "bool", v |-> 1]

PyNone == [k |-> "none", v |-> 0]
KwTok == [k |-> "kw", v |-> 0]       \* the field's own keyword
Num(n) == [k |-> "num", v |-> n]     \* text of the number n, or the int n
Word(n) == [k |-> "word", v |-> n]   \* non-numeric text

IsSeqLike(d) == d.k \in {"list", "tuple", "ndarray"}

\* The text of a scalar, as one number (strings are stored as their text).
TextCode(d) ==
    CASE d.k = "kw" -> 0
      [] d.k = "num" -> 2 * d.v
      [] d.k = "word" -> 2 * d.v + 1
      [] OTHER -> 0

\* DataStorage.convert_data: the typed value of a raw scalar, or a failure.
convert_data(data, type) ==
    IF data.k = "none" THEN [ok |-> FALSE, value |-> NoData]
    ELSE IF type \in {"int", "integer"}
    THEN IF data.k = "num" THEN [ok |-> TRUE, value |-> IntVal(data.v)]
         ELSE [ok |-> FALSE, value |-> NoData]
    ELSE IF type = "double_precision"
    THEN IF data.k = "num" THEN [ok |-> TRUE, value |-> DoubleVal(data.v)]
         ELSE [ok |-> FALSE, value |-> NoData]
    ELSE [ok |-> TRUE, value |-> StrVal(TextCode(data))]

\* DataStorage.has_data / get_data on a storage object.
sto_has_data(sto) == sto # NoData

\* ------------------------------------------------------------------ schema
Item(type, optional) == [type |-> type, optional |-> optional]

\* MFDataStructure.get_datum_type: the type of the first data-bearing
\* sub-item, "keyword" when every sub-item is a keyword.
RECURSIVE FirstDataType(_, _)
FirstDataType(items, i) ==
    IF i > Len(items) THEN "keyword"
    ELSE IF items[i].type # "keyword" THEN items[i].type
    ELSE FirstDataType(items, i + 1)

get_datum_type(s) == FirstDataType(s.items, 1)

ScalarSchema(type, datatype) ==
    [type |-> type, datatype |-> datatype, items |-> <<Item(type, FALSE)>>]

RecordSchema(items) ==
    [type |-> "record", datatype |-> "record", items |-> items]

\* MFScalar.__init__, line 56: the type of the first sub-item.
data_type(s) == s.items[1].type

\* ------------------------------------------------- outcome of one method call
\* status "ok" or the exception raised; sto the storage object's value after
\* the call; flag/text the returned boolean/text; comments what the call
\* handed to _add_data_line_comment, in call order.
Out(status, sto, flag, text, comments) ==
    [status |-> status, sto |-> sto, flag |-> flag, text |-> text,
     comments |-> comments]

Raise(exc, sto, comments) == Out(exc, sto, FALSE, <<>>, comments)

\* ------------------------------------------------------------ rendered text
Indent == [p |-> "indent", t |-> "", v |-> 0]
Newline == [p |-> "nl", t |-> "", v |-> 0]
FieldName == [p |-> "name", t |-> "field", v |-> 0]
ItemName(i) == [p |-> "name", t |-> "item", v |-> i]
\* DataStorage.to_string of a value
to_string(value) == [p |-> "data", t |-> value.t, v |-> value.v]

RECURSIVE JoinWith(_, _)
JoinWith(parts, sep) ==
    IF Len(parts) = 0 THEN <<>>
    ELSE IF Len(parts) = 1 THEN parts[1]
    ELSE parts[1] \o sep \o JoinWith(Tail(parts), sep)

\* ------------------------------------------------------- MFScalar.has_data
ScalarHasData(sto) ==
    IF sto = NoStorage THEN Raise("AttributeError", sto, <<>>)
    ELSE Out("ok", sto, sto_has_data(sto), <<>>, <<>>)

\* ------------------------------------------------------- MFScalar.get_data
ScalarGetData(sto) ==
    IF sto = NoStorage THEN Raise("AttributeError", sto, <<>>)
    ELSE Out("ok", sto, sto_has_data(sto), <<>>, <<>>)

\* Mutant of Unwrap: the length test is made on the layer about to be
\* unwrapped, not on the element taken from it.
RECURSIVE UnwrapOuterComment(_, _)
UnwrapOuterComment(data, comments) ==
    IF ~IsSeqLike(data) THEN [ok |-> TRUE, data |-> data, comments |-> comments]
    ELSE IF Len(data.e) = 0
    THEN [ok |-> FALSE, data |-> data, comments |-> comments]
    ELSE UnwrapOuterComment(data.e[1],
                            IF data.k \in {"list", "tuple"} /\ Len(data.e) > 1
                            THEN Append(comments, Tail(data.e))
                            ELSE comments)

\* ------------------------------------------------------- MFScalar.set_data
\* The while loop of lines 68-71: data and the comments recorded so far.
RECURSIVE Unwrap(_, _)
Unwrap(data, comments) ==
    IF ~IsSeqLike(data) THEN [ok |-> TRUE, data |-> data, comments |-> comments]
    ELSE IF Len(data.e) = 0
    THEN [ok |-> FALSE, data |-> data, comments |-> comments]
    ELSE LET d == data.e[1] IN
         Unwrap(d, IF d.k \in {"list", "tuple"} /\ Len(d.e) > 1
                   THEN Append(comments, Tail(d.e))
                   ELSE comments)

ScalarSetData(s, sto, data) ==
    LET u == Unwrap(data, <<>>) IN
    IF ~u.ok THEN Raise("IndexError", sto, u.comments)
    ELSE IF sto = NoStorage THEN Raise("AttributeError", sto, u.comments)
    ELSE LET c == convert_data(u.data, data_type(s)) IN
         IF ~c.ok THEN Raise("ConversionError", sto, u.comments)
         ELSE Out("ok", c.value, FALSE, <<>>, u.comments)

\* -------------------------------------------------------- MFScalar.add_one
\* Python's value + 1 (True + 1 is 2; text + 1 is a TypeError).
PlusOne(sto) ==
    CASE sto.t = "int" -> [ok |-> TRUE, value |-> IntVal(sto.v + 1)]
      [] sto.t = "bool" -> [ok |-> TRUE, value |-> IntVal(sto.v + 1)]
      [] sto.t = "double" -> [ok |-> TRUE, value |-> DoubleVal(sto.v + 1)]
      [] OTHER -> [ok |-> FALSE, value |-> sto]

\* Mutant of ScalarAddOne: the datum type is not looked at.
ScalarAddOneAnyType(s, sto) ==
    IF sto = NoStorage THEN Raise("AttributeError", sto, <<>>)
    ELSE IF sto = NoData THEN Out("ok", IntVal(1), FALSE, <<>>, <<>>)
    ELSE LET r == PlusOne(sto) IN
         IF r.ok THEN Out("ok", r.value, FALSE, <<>>, <<>>)
         ELSE Raise("TypeError", sto, <<>>)

ScalarAddOne(s, sto) ==
    IF get_datum_type(s) = "int" \/ get_datum_type(s) = "integer"
    THEN IF sto = NoStorage THEN Raise("AttributeError", sto, <<>>)
         ELSE IF sto = NoData THEN Out("ok", IntVal(1), FALSE, <<>>, <<>>)
         ELSE LET r == PlusOne(sto) IN
              IF r.ok THEN Out("ok", r.value, FALSE, <<>>, <<>>)
              ELSE Raise("TypeError", sto, <<>>)
    ELSE Raise("MFFileParseException", sto, <<>>)

\* -------------------------------------------------- MFScalar.get_file_entry
\* len(data) of line 103: only text has a length.
HasLen(sto) == sto.t = "str"

\* The record branch, lines 96-108: the text_line built from sub-item i on,
\* ok FALSE when len(data) raised.
RECURSIVE RecordLine(_, _, _)
RecordLine(s, sto, i) ==
    IF i > Len(s.items) THEN [ok |-> TRUE, line |-> <<>>]
    ELSE LET rest == RecordLine(s, sto, i + 1) IN
         IF s.items[i].type = "keyword" /\ s.items[i].optional = FALSE
         THEN [ok |-> rest.ok, line |-> <<(<<ItemName(i)>>)>> \o rest.line]
         ELSE IF ~HasLen(sto) THEN [ok |-> FALSE, line |-> <<>>]
         ELSE [ok |-> rest.ok, line |-> <<(<<to_string(sto)>>)>> \o rest.line]

ScalarGetFileEntry(s, sto, values_only, one_based) ==
    IF sto = NoStorage \/ sto = NoData THEN Out("ok", sto, FALSE, <<>>, <<>>)
    ELSE IF s.type = "keyword"
    THEN Out("ok", sto, FALSE, <<Indent, FieldName, Newline>>, <<>>)
    ELSE IF s.type = "record"
    THEN LET r == RecordLine(s, sto, 1) IN
         IF ~r.ok THEN Raise("TypeError", sto, <<>>)
         ELSE Out("ok", sto, FALSE,
                  <<Indent>> \o JoinWith(r.line, <<Indent>>) \o <<Newline>>,
                  <<>>)
    ELSE IF one_based /\ ~(s.type = "integer" \/ s.type = "int")
    THEN Raise("AssertionError", sto, <<>>)
    ELSE LET d == IF one_based THEN PlusOne(sto)
                  ELSE [ok |-> TRUE, value |-> sto] IN
         IF ~d.ok THEN Raise("TypeError", sto, <<>>)
         ELSE IF values_only
         THEN Out("ok", sto, FALSE, <<Indent, to_string(d.value)>>, <<>>)
         ELSE Out("ok", sto, FALSE,
                  <<Indent, FieldName, Indent, to_string(d.value), Newline>>,
                  <<>>)

\* ----------------------------------------------------------- MFScalar.load
\* MFData._load_keyword(arr_line, 0): the line must open with the field's
\* keyword; the index of the token after it is returned.
load_keyword(arr_line) ==
    IF Len(arr_line) = 0 \/ arr_line[1].k # "kw" THEN [ok |-> FALSE, index_num |-> 0]
    ELSE [ok |-> TRUE, index_num |-> 1]

\* The for loop of lines 143-147, entered at sub-item `at` (0-based) with
\* `index`: the value of index when the loop is left.
RECURSIVE RecordIndex(_, _, _, _)
RecordIndex(s, arr_line, at, index) ==
    IF at >= Len(s.items) THEN index
    ELSE IF Len(arr_line) <= index + 1
            \/ s.items[at + 1].type # "keyword"
            \/ (index > 0 /\ s.items[index + 1].optional = TRUE)
    THEN index
    ELSE RecordIndex(s, arr_line, at + 1, index + 1)

\* arr_line[index_num:], 0-based
SliceFrom(arr_line, index_num) ==
    SubSeq(arr_line, index_num + 1, Len(arr_line))

\* Lines 171-173: the rest of the line is handed on as a comment.
LineComment(arr_line, index_num) ==
    IF Len(arr_line) > index_num THEN <<SliceFrom(arr_line, index_num)>>
    ELSE <<>>

\* Mutant of LoadToken: the length test is off by one, so a line that ends
\* at the keyword gets past it.
LoadTokenShortTest(s, sto, arr_line, index_num) ==
    IF Len(arr_line) < index_num
    THEN Raise("MFFileParseException", sto, <<>>)
    ELSE IF sto = NoStorage THEN Raise("AttributeError", sto, <<>>)
    ELSE IF index_num >= Len(arr_line) THEN Raise("IndexError", sto, <<>>)
    ELSE LET c == convert_data(arr_line[index_num + 1], data_type(s)) IN
         IF ~c.ok THEN Raise("ConversionError", sto, <<>>)
         ELSE Out("ok", c.value, FALSE, <<>>,
                  LineComment(arr_line, index_num + 1))

\* Lines 157-169: the token after the keyword is the data of a plain scalar.
LoadToken(s, sto, arr_line, index_num) ==
    IF Len(arr_line) < 1 + index_num
    THEN Raise("MFFileParseException", sto, <<>>)
    ELSE IF sto = NoStorage THEN Raise("AttributeError", sto, <<>>)
    ELSE LET c == convert_data(arr_line[index_num + 1], data_type(s)) IN
         IF ~c.ok THEN Raise("ConversionError", sto, <<>>)
         ELSE Out("ok", c.value, FALSE, <<>>,
                  LineComment(arr_line, index_num + 1))

ScalarLoad(s, sto, arr_line) ==
    LET kw == load_keyword(arr_line) IN
    IF ~kw.ok THEN Raise("KeywordError", sto, <<>>)
    ELSE IF s.type = "record"
    THEN LET index == RecordIndex(s, arr_line, 0, 0) IN
         IF sto = NoStorage THEN Raise("AttributeError", sto, <<>>)
         ELSE IF index >= Len(arr_line) \/ index >= Len(s.items)
         THEN Raise("IndexError", sto, <<>>)
         ELSE LET c == convert_data(arr_line[index + 1], s.items[index + 1].type) IN
              IF ~c.ok THEN Raise("ConversionError", sto, <<>>)
              ELSE Out("ok", c.value, FALSE, <<>>,
                       LineComment(arr_line, kw.index_num))
    ELSE IF s.datatype = "scalar_keyword"
            \/ s.datatype = "scalar_keyword_transient"
    THEN IF sto = NoStorage THEN Raise("AttributeError", sto, <<>>)
         ELSE Out("ok", BoolTrue, FALSE, <<>>,
                  LineComment(arr_line, kw.index_num))
    ELSE LoadToken(s, sto, arr_line, kw.index_num)

\* ------------------------------------------------------------------ inputs
BoundedSeqs(S, n) == UNION {[1..m -> S] : m \in 0..n}

RawScalars == {Num(1), Word(1), PyNone}
WrapperKinds == {"list", "tuple", "ndarray"}
\* what follows element 0 in a wrapper: nothing, or a free-text note
Trailers == {<<>>, <<Word(2)>>}

RECURSIVE Raw(_)
Raw(depth) ==
    IF depth = 0 THEN RawScalars
    ELSE RawScalars
         \cup {[k |-> w, e |-> <<>>] : w \in WrapperKinds}
         \cup {[k |-> w, e |-> <<x>> \o t] :
                 w \in WrapperKinds, x \in Raw(depth - 1), t \in Trailers}

TokenSet == {KwTok, Num(1)}
Lines == BoundedSeqs(TokenSet, MaxTokens)

ItemSet == {Item(ty, opt) : ty \in {"keyword", "integer"}, opt \in BOOLEAN}
RecordSchemas ==
    {RecordSchema(items) : items \in BoundedSeqs(ItemSet, MaxItems) \ {<<>>}}
ScalarSchemas ==
    {ScalarSchema("keyword", "scalar_keyword"),
     ScalarSchema("integer", "scalar"),
     ScalarSchema("int", "scalar"),
     ScalarSchema("double_precision", "scalar"),
     ScalarSchema("string", "scalar")}
TransientSchemas ==
    {ScalarSchema("keyword", "scalar_keyword_transient"),
     ScalarSchema("integer", "scalar_transient"),
     ScalarSchema("string", "scalar_transient")}

NoKey == -1                       \* _current_key is None
Keys == 0..MaxKey

\* a tokenized line, as a call's argument
Line(arr_line) == [k |-> "line", e |-> arr_line]

Call(op, data, key, values_only, one_based) ==
    [op |-> op, data |-> data, key |-> key, values_only |-> values_only,
     one_based |-> one_based]

\* what a call returned: an outcome without the storage value
Returned(out) ==
    [status |-> out.status, flag |-> out.flag, text |-> out.text,
     comments |-> out.comments]

NoPackage == [extension |-> <<>>, name |-> <<>>, unit_number |-> <<>>,
              extra |-> <<>>, builds |-> 0]

\* ----------------------------------------------------- MFScalar, one object
\* Mutant of ScalarConstruct: the data argument is dropped.
ScalarConstructEmpty(s, data) == Out("ok", NoData, FALSE, <<>>, <<>>)

\* MFScalar.__init__ (lines 54-59): a new empty storage, then set_data(data)
\* when data is given.  A constructor that raises leaves no object.
ScalarConstruct(s, data) ==
    IF data = PyNone THEN Out("ok", NoData, FALSE, <<>>, <<>>)
    ELSE ScalarSetData(s, NoData, data)

InitScalar ==
    /\ structure \in ScalarSchemas \cup RecordSchemas
    /\ \E data \in Raw(1) :
         LET out == ScalarConstruct(structure, data) IN
         /\ out.status = "ok"
         /\ data_storage = out.sto
         /\ call = Call("__init__", data, NoKey, FALSE, FALSE)
         /\ result = Returned(out)
    /\ current_key = NoKey
    /\ extension_default = <<>>
    /\ package_args = NoPackage

Finish(c, out) ==
    /\ data_storage' = out.sto
    /\ call' = c
    /\ result' = Returned(out)
    /\ UNCHANGED <<structure, current_key, extension_default, package_args>>

has_data ==
    Finish(Call("has_data", PyNone, NoKey, FALSE, FALSE),
           ScalarHasData(data_storage))

get_data ==
    Finish(Call("get_data", PyNone, NoKey, FALSE, FALSE),
           ScalarGetData(data_storage))

\* One layer of wrapping is enough here; SpecSetData nests to MaxDepth.
set_data ==
    \E data \in Raw(1) :
        Finish(Call("set_data", data, NoKey, FALSE, FALSE),
               ScalarSetData(structure, data_storage, data))

add_one ==
    /\ data_storage.v < MaxVal
    /\ Finish(Call("add_one", PyNone, NoKey, FALSE, FALSE),
              ScalarAddOne(structure, data_storage))

get_file_entry ==
    \E values_only \in BOOLEAN, one_based \in BOOLEAN :
        /\ one_based => data_storage.v < MaxVal
        /\ Finish(Call("get_file_entry", PyNone, NoKey, values_only, one_based),
                  ScalarGetFileEntry(structure, data_storage, values_only,
                                     one_based))

load ==
    \E arr_line \in Lines :
        Finish(Call("load", Line(arr_line), NoKey, FALSE, FALSE),
               ScalarLoad(structure, data_storage, arr_line))

NextScalar ==
    \/ has_data
    \/ get_data
    \/ set_data
    \/ add_one
    \/ get_file_entry
    \/ load

Spec == InitScalar /\ [][NextScalar]_vars

\* ------------------------------------- MFScalar.set_data on nested wrappers
InitSetData ==
    /\ structure \in {ScalarSchema("integer", "scalar"),
                      ScalarSchema("string", "scalar")}
    /\ data_storage = NoData
    /\ call = Call("__init__", PyNone, NoKey, FALSE, FALSE)
    /\ result = Returned(ScalarConstruct(structure, PyNone))
    /\ current_key = NoKey
    /\ extension_default = <<>>
    /\ package_args = NoPackage

set_data_nested ==
    \E data \in Raw(MaxDepth) :
        Finish(Call("set_data", data, NoKey, FALSE, FALSE),
               ScalarSetData(structure, data_storage, data))

SpecSetData == InitSetData /\ [][set_data_nested]_vars

\* =================================================== MFScalarTransient
\* _data_storage is an OrderedDict: keys in insertion order, and the storage
\* object of each key.
Range(seq) == {seq[i] : i \in 1..Len(seq)}

\* MFScalarTransient._new_storage (line 304)
EmptyDict == [keys |-> <<>>, cell |-> <<>>]

\* OrderedDict.__setitem__: a key already present keeps its place.
DictSet(ds, key, value) ==
    [keys |-> IF key \in Range(ds.keys) THEN ds.keys ELSE Append(ds.keys, key),
     cell |-> [k \in DOMAIN ds.cell \cup {key} |->
                 IF k = key THEN value ELSE ds.cell[k]]]

\* MFScalarTransient._get_storage_obj (lines 306-309)
get_storage_obj(ds, cur) ==
    IF cur = NoKey \/ cur \notin Range(ds.keys) THEN NoStorage
    ELSE ds.cell[cur]

\* Mutant of PutBack: the storage object handed out is the first key's,
\* whatever the current key.
PutBackFirstKey(ds, cur, out) ==
    IF out.sto = NoStorage THEN ds ELSE DictSet(ds, ds.keys[1], out.sto)

\* The storage object of the current key after a scalar method ran on it: a
\* method that met no storage object changed nothing.
PutBack(ds, cur, out) ==
    IF out.sto = NoStorage THEN ds ELSE DictSet(ds, cur, out.sto)

\* State after a transient method: the dict, the current key, what returned.
TOut(ds, cur, out) == [ds |-> ds, cur |-> cur, out |-> out]

\* MFTransient.get_data_prep / _set_data_prep / _update_record_prep /
\* _get_file_entry_prep / _load_prep: the key becomes the current key; no
\* key given leaves the current key as it is.
prep(cur, key) == IF key = NoKey THEN cur ELSE key

\* Mutant of TransientAddKey: a key already registered keeps its cell.
TransientAddKeyKeep(ds, cur, key) ==
    TOut(IF key \in Range(ds.keys) THEN ds ELSE DictSet(ds, key, NoData),
         cur, Out("ok", NoData, FALSE, <<>>, <<>>))

\* add_transient_key (lines 246-248)
TransientAddKey(ds, cur, key) ==
    TOut(DictSet(ds, key, NoData), cur, Out("ok", NoData, FALSE, <<>>, <<>>))

\* add_one (lines 250-252)
TransientAddOne(s, ds, cur, key) ==
    LET c == prep(cur, key)
        out == ScalarAddOne(s, get_storage_obj(ds, c))
    IN  TOut(PutBack(ds, c, out), c, out)

\* Mutant of ScanHasData: the scan stops at the first key, data or not.
ScanHasDataFirstKey(ds, cur, i) ==
    IF i > Len(ds.keys) THEN TOut(ds, cur, Out("ok", NoData, FALSE, <<>>, <<>>))
    ELSE LET c == prep(cur, ds.keys[i]) IN
         TOut(ds, c, ScalarHasData(get_storage_obj(ds, c)))

\* has_data with no key (lines 255-261): the scan from position i on.
RECURSIVE ScanHasData(_, _, _)
ScanHasData(ds, cur, i) ==
    IF i > Len(ds.keys) THEN TOut(ds, cur, Out("ok", NoData, FALSE, <<>>, <<>>))
    ELSE LET c == prep(cur, ds.keys[i])
             out == ScalarHasData(get_storage_obj(ds, c))
         IN  IF out.flag THEN TOut(ds, c, out)
             ELSE ScanHasData(ds, c, i + 1)

\* has_data (lines 254-265)
TransientHasData(ds, cur, key) ==
    IF key = NoKey THEN ScanHasData(ds, cur, 1)
    ELSE LET out == ScalarHasData(get_storage_obj(ds, key)) IN
         TOut(ds, key, out)

\* get_data (lines 267-269)
TransientGetData(ds, cur, key) ==
    LET c == prep(cur, key) IN
    TOut(ds, c, ScalarGetData(get_storage_obj(ds, c)))

\* set_data of one value (lines 279-280)
TransientSetOne(s, ds, cur, data, key) ==
    LET c == prep(cur, key)
        out == ScalarSetData(s, get_storage_obj(ds, c), data)
    IN  TOut(PutBack(ds, c, out), c, out)

\* set_data of a mapping (lines 275-277): the entries from position i on;
\* the first entry that raises ends the call, earlier entries stay set.
RECURSIVE SetEntries(_, _, _, _, _, _)
SetEntries(s, ds, cur, entries, i, comments) ==
    IF i > Len(entries)
    THEN TOut(ds, cur, Out("ok", NoData, FALSE, <<>>, comments))
    ELSE LET r == TransientSetOne(s, ds, cur, entries[i].item, entries[i].key)
             all == comments \o r.out.comments
         IN  IF r.out.status # "ok"
             THEN TOut(r.ds, r.cur, Raise(r.out.status, NoData, all))
             ELSE SetEntries(s, r.ds, r.cur, entries, i + 1, all)

\* set_data (lines 271-280)
TransientSetData(s, ds, cur, data, key) ==
    IF data.k = "dict" THEN SetEntries(s, ds, cur, data.e, 1, <<>>)
    ELSE TransientSetOne(s, ds, cur, data, key)

\* get_file_entry with no key, the loop of lines 285-288 from position i on:
\* the entries collected, or the exception a rendering raised.
RECURSIVE CollectEntries(_, _, _, _, _)
CollectEntries(s, ds, cur, i, file_entry) ==
    IF i > Len(ds.keys)
    THEN [cur |-> cur, status |-> "ok", file_entry |-> file_entry]
    ELSE LET h == TransientHasData(ds, cur, ds.keys[i]) IN
         IF h.out.status # "ok"
         THEN [cur |-> h.cur, status |-> h.out.status, file_entry |-> file_entry]
         ELSE IF ~h.out.flag
         THEN CollectEntries(s, ds, h.cur, i + 1, file_entry)
         ELSE LET c == prep(h.cur, ds.keys[i])
                  e == ScalarGetFileEntry(s, get_storage_obj(ds, c), FALSE, FALSE)
              IN  IF e.status # "ok"
                  THEN [cur |-> c, status |-> e.status, file_entry |-> file_entry]
                  ELSE CollectEntries(s, ds, c, i + 1, Append(file_entry, e.text))

\* What `file_entry > 1` (line 289) evaluates to, a list against an int:
\* Python 2 orders the two by type name and answers True; Python 3 raises
\* TypeError.
ListGtInt == {"True", "TypeError"}

\* '\n\n'.join(file_entry)
BlankLine == <<Newline, Newline>>

\* get_file_entry (lines 282-297); list_gt_int is the outcome of line 289.
TransientGetFileEntry(s, ds, cur, key, list_gt_int) ==
    IF key = NoKey
    THEN LET r == CollectEntries(s, ds, cur, 1, <<>>) IN
         IF r.status # "ok"
         THEN TOut(ds, r.cur, Raise(r.status, NoData, <<>>))
         ELSE IF list_gt_int = "TypeError"
         THEN TOut(ds, r.cur, Raise("TypeError", NoData, <<>>))
         ELSE TOut(ds, r.cur, Out("ok", NoData, FALSE,
                                  JoinWith(r.file_entry, BlankLine), <<>>))
    ELSE LET out == ScalarGetFileEntry(s, get_storage_obj(ds, key), FALSE, FALSE) IN
         TOut(ds, key, out)

\* load (lines 299-301): _load_prep makes the key of the block the current
\* key, then MFScalar.load reads the line.
TransientLoad(s, ds, cur, arr_line, key) ==
    LET c == prep(cur, key)
        out == ScalarLoad(s, get_storage_obj(ds, c), arr_line)
    IN  TOut(PutBack(ds, c, out), c, out)

\* ------------------------------------------------------------ the object
\* mappings key -> value given to set_data, in the mapping's order
Entry(key, item) == [key |-> key, item |-> item]
Mapping(entries) == [k |-> "dict", e |-> entries]

InitTransient ==
    /\ structure \in TransientSchemas
    /\ data_storage = EmptyDict
    /\ current_key = NoKey
    /\ call = Call("__init__", PyNone, NoKey, FALSE, FALSE)
    /\ result = Returned(Out("ok", NoData, FALSE, <<>>, <<>>))
    /\ extension_default = <<>>
    /\ package_args = NoPackage

TFinish(c, r) ==
    /\ data_storage' = r.ds
    /\ current_key' = r.cur
    /\ call' = c
    /\ result' = Returned(r.out)
    /\ UNCHANGED <<structure, extension_default, package_args>>

\* Each action takes the keys (and values, lines) its caller may pass.
t_add_transient_key(K) ==
    \E key \in K :
        TFinish(Call("add_transient_key", PyNone, key, FALSE, FALSE),
                TransientAddKey(data_storage, current_key, key))

t_add_one(K) ==
    \E key \in K :
        /\ get_storage_obj(data_storage, key).v < MaxVal
        /\ TFinish(Call("add_one", PyNone, key, FALSE, FALSE),
                   TransientAddOne(structure, data_storage, current_key, key))

t_has_data(K) ==
    \E key \in K \cup {NoKey} :
        TFinish(Call("has_data", PyNone, key, FALSE, FALSE),
                TransientHasData(data_storage, current_key, key))

t_get_data(K) ==
    \E key \in K :
        TFinish(Call("get_data", PyNone, key, FALSE, FALSE),
                TransientGetData(data_storage, current_key, key))

t_set_data(K, values) ==
    \E key \in K \cup {NoKey}, data \in values :
        TFinish(Call("set_data", data, key, FALSE, FALSE),
                TransientSetData(structure, data_storage, current_key, data, key))

t_set_data_mapping(mappings) ==
    \E data \in mappings :
        TFinish(Call("set_data", data, NoKey, FALSE, FALSE),
                TransientSetData(structure, data_storage, current_key, data, NoKey))

t_get_file_entry(K) ==
    \E key \in K \cup {NoKey}, list_gt_int \in ListGtInt :
        TFinish(Call("get_file_entry", PyNone, key, FALSE, FALSE),
                TransientGetFileEntry(structure, data_storage, current_key,
                                      key, list_gt_int))

t_load(K, lines) ==
    \E key \in K, arr_line \in lines :
        TFinish(Call("load", Line(arr_line), key, FALSE, FALSE),
                TransientLoad(structure, data_storage, current_key, arr_line, key))

\* ---------------- every operation, on the keys 0..MaxCellKey
CellKeys == 0..MaxCellKey
TransientRaws ==
    {Num(1), Word(1),
     [k |-> "list", e |-> <<[k |-> "list", e |-> <<Num(1), Word(2)>>]>>]}
\* one entry, or two where the first may fail to convert
Mappings ==
    {Mapping(<<Entry(a, Num(1))>>) : a \in CellKeys}
    \cup {Mapping(<<Entry(a, x), Entry((a + 1) % (MaxCellKey + 1), Num(1))>>) :
            a \in CellKeys, x \in {Num(1), Word(1)}}
TransientLines == {<<KwTok>>, <<KwTok, Num(1)>>, <<KwTok, KwTok>>}

NextTransient ==
    \/ t_add_transient_key(CellKeys)
    \/ t_add_one(CellKeys)
    \/ t_has_data(CellKeys)
    \/ t_get_data(CellKeys)
    \/ t_set_data(CellKeys, TransientRaws)
    \/ t_set_data_mapping(Mappings)
    \/ t_get_file_entry(CellKeys)
    \/ t_load(CellKeys, TransientLines)

SpecTransient == InitTransient /\ [][NextTransient]_vars

\* ---------------- registration, has_data and get_file_entry on 0..MaxKey
NextKeys ==
    \/ t_add_transient_key(Keys)
    \/ t_set_data(Keys, {Num(1)})
    \/ t_load(Keys, {<<KwTok, Num(1)>>})
    \/ t_has_data(Keys)
    \/ t_get_file_entry(Keys)

SpecKeys == InitTransient /\ [][NextKeys]_vars

\* ======================================================= ModflowPcgn
\* The default of `extension` (line 10) is one list object, made when the
\* function is defined and shared by every call that does not pass its own:
\* extension_default holds its elements.
DefaultUnitNumber == 27
UnitNumbers == 0..MaxUnit

\* Lines 14-21: what the loop appends for the units (unit_pc, unit_ts,
\* ipunit), from position i on.
RECURSIVE Appended(_, _, _)
Appended(tu, ea, i) ==
    IF i > Len(tu) THEN <<>>
    ELSE (IF tu[i] > 0 THEN <<[e |-> ea[i], t |-> tu[i]]>> ELSE <<>>)
         \o Appended(tu, ea, i + 1)

\* ModflowPcgn.__init__ (lines 6-48) relying on the default extension: the
\* lists handed to Package.__init__, and the exception raised after it.
PcgnInit(extension, tu, ifill) ==
    LET added == Appended(tu, <<"pcgni", "pcgnt", "pcgno">>, 1) IN
    [extension |-> extension \o [i \in 1..Len(added) |-> added[i].e],
     name |-> <<"PCGN">> \o [i \in 1..Len(added) |-> "DATA"],
     unit_number |-> <<DefaultUnitNumber>> \o [i \in 1..Len(added) |-> added[i].t],
     extra |-> <<"">> \o [i \in 1..Len(added) |-> "REPLACE"],
     status |-> IF ifill < 0 \/ ifill > 1 THEN "TypeError" ELSE "ok"]

InitPcgn ==
    /\ extension_default = <<"pcgn">>
    /\ package_args = NoPackage
    /\ structure = ScalarSchema("integer", "scalar")
    /\ data_storage = NoData
    /\ current_key = NoKey
    /\ call = Call("import", PyNone, NoKey, FALSE, FALSE)
    /\ result = Returned(Out("ok", NoData, FALSE, <<>>, <<>>))

ModflowPcgn ==
    \E unit_pc \in UnitNumbers, unit_ts \in UnitNumbers, ipunit \in UnitNumbers,
       ifill \in -1..2 :
        LET r == PcgnInit(extension_default, <<unit_pc, unit_ts, ipunit>>, ifill) IN
        /\ package_args.builds < MaxBuilds
        /\ extension_default' = r.extension
        /\ package_args' = [extension |-> r.extension, name |-> r.name,
                            unit_number |-> r.unit_number, extra |-> r.extra,
                            builds |-> package_args.builds + 1]
        /\ call' = Call("ModflowPcgn",
                        [k |-> "args", e |-> <<unit_pc, unit_ts, ipunit, ifill>>],
                        NoKey, FALSE, FALSE)
        /\ result' = Returned(Raise(r.status, NoData, <<>>))
        /\ UNCHANGED <<structure, data_storage, current_key>>

SpecPcgn == InitPcgn /\ [][ModflowPcgn]_vars

\* ---------------- MFScalar and MFScalarTransient objects side by side
IsScalarObject == "t" \in DOMAIN data_storage

NextCells ==
    \/ IsScalarObject /\ NextScalar
    \/ ~IsScalarObject /\ NextTransient

SpecCells == (InitScalar \/ InitTransient) /\ [][NextCells]_vars

\* ===================================================================
\* Properties
\* ===================================================================
Registered == Range(data_storage.keys)
HoldsData(k) == data_storage.cell[k] # NoData

\* C1: get_file_entry() with no key never fails and returns the rendered
\* entries of exactly the registered keys that hold data, in registration
\* order: joined by a blank line when there are two or more, bare when there
\* is one, the empty text when there is none.
C1_FileEntryOfAllKeys ==
    (call.op = "get_file_entry" /\ call.key = NoKey) =>
        LET WithData(k) == HoldsData(k)
            ks == SelectSeq(data_storage.keys, WithData)
            entry(k) == ScalarGetFileEntry(structure, data_storage.cell[k],
                                           FALSE, FALSE).text
        IN  /\ result.status = "ok"
            /\ Len(ks) = 0 => result.text = <<>>
            /\ Len(ks) = 1 => result.text = entry(ks[1])
            /\ Len(ks) >= 2 =>
                 result.text = JoinWith([i \in 1..Len(ks) |-> entry(ks[i])],
                                        <<Newline, Newline>>)

\* C2 as stated: has_data() is false right after construction whatever the
\* constructor arguments, and true right after a set_data or load that did
\* not raise.
C2_AsStated ==
    /\ call.op = "__init__" => ~ScalarHasData(data_storage).flag
    /\ (call.op \in {"set_data", "load"} /\ result.status = "ok")
         => ScalarHasData(data_storage).flag

\* C2 amended: right after construction has_data() is false when no data
\* argument was given and true when one was; it is true right after a
\* set_data or load that did not raise.
C2_HasDataAfter ==
    /\ (call.op = "__init__" /\ call.data = PyNone)
         => ~ScalarHasData(data_storage).flag
    /\ (call.op = "__init__" /\ call.data # PyNone)
         => ScalarHasData(data_storage).flag
    /\ (call.op \in {"set_data", "load"} /\ result.status = "ok")
         => ScalarHasData(data_storage).flag

C2_Witness ==
    /\ call.op = "__init__"
    /\ call.data = [k |-> "list", e |-> <<Num(1)>>]
    /\ structure.type = "integer"
    /\ data_storage = IntVal(1)

\* C3: add_one on a cell of datum type int/integer stores 1 when the cell
\* holds no data and n+1 when it holds the integer n; on any other datum type
\* it raises MFFileParseException and leaves the stored value unchanged.  In
\* a transient object the cell is that of the key passed to add_one.
C3_AddOne ==
    [][call'.op = "add_one" =>
        LET registered == IsScalarObject \/ call'.key \in Registered
            before == IF IsScalarObject THEN data_storage
                      ELSE data_storage.cell[call'.key]
            after == IF IsScalarObject THEN data_storage'
                     ELSE data_storage'.cell[call'.key]
        IN  IF get_datum_type(structure) \in {"int", "integer"}
            THEN registered =>
                   /\ before = NoData =>
                        result'.status = "ok" /\ after = IntVal(1)
                   /\ before.t = "int" =>
                        result'.status = "ok" /\ after = IntVal(before.v + 1)
            ELSE /\ result'.status = "MFFileParseException"
                 /\ data_storage' = data_storage
    ]_vars

C3_Witness ==
    /\ call.op = "add_one"
    /\ result.status = "ok"
    /\ ~IsScalarObject
    /\ call.key \in Registered
    /\ data_storage.cell[call.key] = IntVal(2)

\* C4: has_data(k) on a registered key is true exactly when the cell of k
\* holds data; has_data() with no key is true exactly when some registered
\* key's cell holds data (false when no key is registered); neither raises.
C4_HasData ==
    (call.op = "has_data") =>
        /\ call.key = NoKey =>
             /\ result.status = "ok"
             /\ result.flag <=> (\E k \in Registered : HoldsData(k))
        /\ call.key \in Registered =>
             /\ result.status = "ok"
             /\ result.flag <=> HoldsData(call.key)

\* keys 0, 1, 2 registered, data only at key 1, has_data() answered true
C4_Witness ==
    /\ call.op = "has_data"
    /\ call.key = NoKey
    /\ data_storage.keys = <<0, 1, 2>>
    /\ ~HoldsData(0) /\ HoldsData(1) /\ ~HoldsData(2)
    /\ result.flag

\* The keys a call is aimed at.
Targets(c, cur) ==
    IF c.op \in {"add_transient_key", "add_one", "load"} THEN {c.key}
    ELSE IF c.op = "set_data"
    THEN IF c.data.k = "dict" THEN {c.data.e[i].key : i \in 1..Len(c.data.e)}
         ELSE {prep(cur, c.key)}
    ELSE {}

\* C5: an operation aimed at key K changes only the cell of K: every other
\* registered key keeps its place and its stored value; has_data, get_data
\* and get_file_entry change no cell.
C5_Isolation ==
    [][/\ \A k \in Registered :
            /\ k \in Range(data_storage'.keys)
            /\ k \notin Targets(call', current_key)
                 => data_storage'.cell[k] = data_storage.cell[k]
       /\ call'.op \in {"has_data", "get_data", "get_file_entry"}
            => data_storage' = data_storage
    ]_vars

C5_Witness ==
    /\ call.op = "set_data"
    /\ call.data = Num(1)
    /\ call.key = 1
    /\ result.status = "ok"
    /\ data_storage.keys = <<0, 1>>
    /\ data_storage.cell[0] = IntVal(2)
    /\ data_storage.cell[1] = IntVal(1)

\* C6 as stated: on a line holding only the keyword, a keyword-only scalar
\* loads boolean true and a non-keyword, non-record scalar raises the
\* missing-data error and stores nothing; when a token follows the keyword
\* of a non-keyword scalar it is converted and stored and no error is raised.
C6_AsStated ==
    [][(/\ call'.op = "load"
        /\ structure.type # "record"
        /\ Len(call'.data.e) >= 1
        /\ call'.data.e[1] = KwTok) =>
        LET line == call'.data.e
            keyword_only == structure.datatype \in
                              {"scalar_keyword", "scalar_keyword_transient"}
        IN  /\ (keyword_only /\ Len(line) = 1) =>
                 result'.status = "ok" /\ data_storage' = BoolTrue
            /\ (~keyword_only /\ Len(line) = 1) =>
                 /\ result'.status = "MFFileParseException"
                 /\ data_storage' = data_storage
            /\ (~keyword_only /\ Len(line) >= 2) =>
                 /\ result'.status = "ok"
                 /\ data_storage' = convert_data(line[2], structure.type).value
    ]_vars

\* C6 amended: as stated, except that the token following the keyword of a
\* non-keyword scalar is stored, with no error, only when it converts to the
\* declared type; when it does not, the conversion error is raised (never
\* the missing-data error) and nothing is stored.
C6_LoadKeywordLine ==
    [][(/\ call'.op = "load"
        /\ structure.type # "record"
        /\ Len(call'.data.e) >= 1
        /\ call'.data.e[1] = KwTok) =>
        LET line == call'.data.e
            keyword_only == structure.datatype \in
                              {"scalar_keyword", "scalar_keyword_transient"}
        IN  /\ (keyword_only /\ Len(line) = 1) =>
                 result'.status = "ok" /\ data_storage' = BoolTrue
            /\ (~keyword_only /\ Len(line) = 1) =>
                 /\ result'.status = "MFFileParseException"
                 /\ data_storage' = data_storage
            /\ (~keyword_only /\ Len(line) >= 2) =>
                 LET c == convert_data(line[2], structure.type) IN
                 IF c.ok
                 THEN result'.status = "ok" /\ data_storage' = c.value
                 ELSE /\ result'.status = "ConversionError"
                      /\ data_storage' = data_storage
    ]_vars

\* a value is held, then a line with only the keyword raises missing data
C6_Witness ==
    /\ call.op = "load"
    /\ call.data = Line(<<KwTok>>)
    /\ structure.type = "integer"
    /\ result.status = "MFFileParseException"
    /\ data_storage = IntVal(1)

\* The scalar reached by taking element 0 again and again; ok FALSE when an
\* empty wrapper is met on the way.
RECURSIVE Leaf(_)
Leaf(raw) ==
    IF raw.k \notin WrapperKinds THEN [ok |-> TRUE, data |-> raw]
    ELSE IF raw.e = <<>> THEN [ok |-> FALSE, data |-> raw]
    ELSE Leaf(Head(raw.e))

\* The layers below the outermost one, outermost first.
RECURSIVE InnerLayers(_)
InnerLayers(raw) ==
    IF raw.k \notin WrapperKinds \/ raw.e = <<>> THEN <<>>
    ELSE <<Head(raw.e)>> \o InnerLayers(Head(raw.e))

IsAnnotated(layer) ==
    /\ layer.k \in {"list", "tuple"}
    /\ Len(layer.e) > 1

\* C7: set_data on a value nested in list/tuple/array wrappers ends; what is
\* converted and stored is the scalar reached by taking element 0 again and
\* again; every layer reached by an unwrapping step that is a list or tuple
\* longer than 1 has its elements from index 1 on recorded as a comment, in
\* the order the layers are reached, and nothing else is recorded.
C7_Unwrapping ==
    (call.op = "set_data" /\ Leaf(call.data).ok) =>
        LET leaf == Leaf(call.data).data
            c == convert_data(leaf, structure.type)
            annotated == SelectSeq(InnerLayers(call.data), IsAnnotated)
        IN  /\ result.status = IF c.ok THEN "ok" ELSE "ConversionError"
            /\ c.ok => data_storage = c.value
            /\ result.comments =
                 [i \in 1..Len(annotated) |-> Tail(annotated[i].e)]

\* set_data([[n, "note"]]) stored n and recorded the comment "note"
C7_Witness ==
    /\ call.op = "set_data"
    /\ call.data = [k |-> "list",
                    e |-> <<[k |-> "list", e |-> <<Num(1), Word(2)>>]>>]
    /\ structure.type = "integer"
    /\ data_storage = IntVal(1)
    /\ result.comments = << <<Word(2)>> >>

\* C8: add_transient_key on a key already registered replaces its cell with
\* an empty one: right afterwards has_data(key) is false and
\* get_file_entry(key) is the empty text, the key keeps its place, and the
\* cells of all other keys are unchanged.
C8_ReRegistration ==
    [][(call'.op = "add_transient_key" /\ call'.key \in Registered) =>
        LET key == call'.key
            has == TransientHasData(data_storage', current_key', key).out
        IN  /\ has.status = "ok" /\ ~has.flag
            /\ \A cmp \in ListGtInt :
                 LET entry == TransientGetFileEntry(structure, data_storage',
                                                    current_key', key, cmp).out
                 IN  entry.status = "ok" /\ entry.text = <<>>
            /\ data_storage'.keys = data_storage.keys
            /\ \A k \in Registered \ {key} :
                 data_storage'.cell[k] = data_storage.cell[k]
    ]_vars

\* key keys[1] was registered again after keys[2] had been given data
C8_Witness ==
    /\ call.op = "add_transient_key"
    /\ Len(data_storage.keys) >= 2
    /\ call.key = data_storage.keys[1]
    /\ ~HoldsData(data_storage.keys[1])
    /\ HoldsData(data_storage.keys[2])

\* The index the record rule names: sub-items are passed in schema order
\* while they are mandatory keywords and a further token is left.
RECURSIVE FirstDataIndex(_, _, _)
FirstDataIndex(items, ntokens, index) ==
    IF index >= Len(items) THEN index
    ELSE IF ntokens <= index + 1 THEN index
    ELSE IF ~(items[index + 1].type = "keyword" /\ ~items[index + 1].optional)
    THEN index
    ELSE FirstDataIndex(items, ntokens, index + 1)

\* C9: load on a record schema converts and stores the token at the first
\* index whose sub-item is not a mandatory keyword (or where the tokens run
\* out), using the declared type of the sub-item at that index, for every
\* combination of sub-item types, optional flags and token counts.
C9_RecordIndex ==
    (/\ call.op = "load"
     /\ structure.type = "record"
     /\ Len(call.data.e) >= 1
     /\ call.data.e[1] = KwTok) =>
        LET index == FirstDataIndex(structure.items, Len(call.data.e), 0) IN
        /\ index < Len(structure.items)
        /\ index < Len(call.data.e)
        /\ result.status \in {"ok", "ConversionError"}
        /\ result.status = "ok" =>
             data_storage = convert_data(call.data.e[index + 1],
                                         structure.items[index + 1].type).value

\* C10: every construction relying on the default extension hands
\* Package.__init__ four lists of one length: one entry for the PCGN file
\* and one for each of unit_pc, unit_ts, ipunit that is > 0 in that call.
C10_ListsOfOneLength ==
    (call.op = "ModflowPcgn") =>
        LET n == 1 + Cardinality({i \in 1..3 : call.data.e[i] > 0}) IN
        /\ Len(package_args.extension) = n
        /\ Len(package_args.name) = n
        /\ Len(package_args.unit_number) = n
        /\ Len(package_args.extra) = n

====
